---- MODULE Spec2Model ----
(***************************************************************************)
(* Model of the Express/Mongoose e-commerce backend of src/index.js (the   *)
(* routes registered first, lines 1-589) with the schemas of               *)
(* src/models/models.user.js (lines 1-80) and src/models/models.order.js   *)
(* (lines 1-46).  Every request is stamped with DEMO_USER_ID and handled   *)
(* to completion before the next one (Spec, SpecApi, SpecAll,              *)
(* SpecProducts) or store call by store call next to another (SpecConc).   *)
(*                                                                         *)
(* Strings are sequences of one-character strings, so that trimming and    *)
(* ObjectId parsing/formatting are computed and not assumed.  ObjectIds    *)
(* are sequences of hex digit values; the 24 hex digits of a real          *)
(* ObjectId are shortened to the length of DEMO_USER_ID as written here.   *)
(***************************************************************************)
EXTENDS Integers, Sequences, FiniteSets, TLC

\* Number of requests a behaviour serves: caps cart length, quantities and
\* the number of Orders.
MaxRequests == 4

\* requests served per behaviour by the routes outside cart and checkout
MaxApiRequests == 3

\* requests that arrive per behaviour while others may be in flight
MaxConcRequests == 2

\* store calls that fail per behaviour
MaxFaults == 1

(***************************************************************************)
(* JavaScript values carried by requests and stored in documents           *)
(***************************************************************************)
Undefined == [t |-> "undefined", s |-> <<>>]
Null == [t |-> "null", s |-> <<>>]
Str(cs) == [t |-> "string", s |-> cs]

\* JS truthiness of undefined / null / string
Truthy(v) == v.t = "string" /\ v.s # <<>>

\* JS  a || b
OrElse(a, b) == IF Truthy(a) THEN a ELSE b

\* destructuring default  { size = null } : applies to undefined only
DefaultNull(v) == IF v = Undefined THEN Null ELSE v

(***************************************************************************)
(* String.prototype.trim, applied by the `trim: true` setter               *)
(***************************************************************************)
IsSpace(c) == c = " "

RECURSIVE TrimLeft(_)
TrimLeft(cs) == IF cs # <<>> /\ IsSpace(Head(cs)) THEN TrimLeft(Tail(cs)) ELSE cs

RECURSIVE TrimRight(_)
TrimRight(cs) ==
    IF cs # <<>> /\ IsSpace(cs[Len(cs)])
    THEN TrimRight(SubSeq(cs, 1, Len(cs) - 1))
    ELSE cs

Trim(cs) == TrimRight(TrimLeft(cs))

\* SchemaString cast + trim setter of CartItemSchema.size
CastSize(v) == IF Truthy(v) THEN Str(Trim(v.s)) ELSE v

(***************************************************************************)
(* ObjectId: parsed from hex (either case), printed in lower case          *)
(***************************************************************************)
HexLower == <<"0","1","2","3","4","5","6","7","8","9","a","b","c","d","e","f">>
HexUpper == <<"0","1","2","3","4","5","6","7","8","9","A","B","C","D","E","F">>

IsHex(c) == \E i \in 1..Len(HexLower) : HexLower[i] = c \/ HexUpper[i] = c
HexValue(c) == CHOOSE d \in 0..(Len(HexLower) - 1) : HexLower[d + 1] = c \/ HexUpper[d + 1] = c

DEMO_USER_ID == <<"6", "9">>

IsObjectIdString(v) ==
    /\ v.t = "string"
    /\ Len(v.s) = Len(DEMO_USER_ID)
    /\ \A i \in 1..Len(v.s) : IsHex(v.s[i])

CastObjectId(v) == [i \in 1..Len(v.s) |-> HexValue(v.s[i])]

\* ObjectId.prototype.toString
ObjectIdToString(oid) == Str([i \in 1..Len(oid) |-> HexLower[oid[i] + 1]])

\* a `product` path whose cast failed; reported by validation on save
CastError == <<>>

(***************************************************************************)
(* Catalog (Product collection), read-only for the routes                  *)
(***************************************************************************)
P1 == CastObjectId(Str(<<"a", "1">>))
P2 == CastObjectId(Str(<<"b", "2">>))

Catalogs ==
    { { [_id |-> P1, name |-> Str(<<"s">>), price |-> 10],
        [_id |-> P2, name |-> Str(<<"d">>), price |-> 20] },
      { [_id |-> P1, name |-> Str(<<"s">>), price |-> 15] } }

NoProduct == [_id |-> CastError, name |-> Null, price |-> 0]

\* populate("cart.product"): the referenced Product, or null when none exists
Populate(cat, oid) ==
    IF \E p \in cat : p._id = oid THEN CHOOSE p \in cat : p._id = oid ELSE NoProduct

(***************************************************************************)
(* User document                                                           *)
(***************************************************************************)
A1 == CastObjectId(Str(<<"c", "3">>))
A2 == CastObjectId(Str(<<"d", "4">>))

\* AddressSchema: phone is optional, the other fields are required
SeedAddresses ==
    << [_id |-> A1, fullName |-> Str(<<"h">>), phone |-> Str(<<"5">>)],
       [_id |-> A2, fullName |-> Str(<<"w">>), phone |-> Undefined] >>

\* name and email of the demo user
SeedProfile ==
    [name  |-> Str(<<"D">>),
     email |-> Str(<<"d", "@", "e", ".", "x">>)]

\* CartItemSchema applied to a pushed object
CastCartItem(productId, quantity, size) ==
    [product  |-> IF IsObjectIdString(productId) THEN CastObjectId(productId) ELSE CastError,
     quantity |-> quantity,
     size     |-> CastSize(size)]

\* CartItemSchema validators run by user.save()
ValidCartItem(item) == item.product # CastError /\ item.quantity >= 1

ValidCart(c) == \A i \in 1..Len(c) : ValidCartItem(c[i])

(***************************************************************************)
(* State                                                                   *)
(***************************************************************************)
VARIABLES
    catalog,       \* Product collection
    userExists,    \* whether a User with _id DEMO_USER_ID is stored
    cart,          \* user.cart as persisted
    addresses,     \* user.addresses as persisted
    orderHistory,  \* user.orderHistory as persisted
    wishlist,      \* user.wishlist as persisted
    profile,       \* user.name and user.email as persisted
    orders,        \* Order collection, in creation order
    inflight,      \* requests being served concurrently, and the user's __v
    last,          \* the last request, its response, and the stored state it found
    served         \* number of requests served

vars == <<catalog, userExists, cart, addresses, orderHistory, wishlist, profile,
          orders, inflight, last, served>>

Stored ==
    [cart |-> cart, orderHistory |-> orderHistory, orders |-> orders,
     addresses |-> addresses, wishlist |-> wishlist, profile |-> profile]

NoBody == [hasCart |-> FALSE, cart |-> <<>>, orderId |-> 0]
CartBody(c) == [hasCart |-> TRUE, cart |-> c, orderId |-> 0]
OrderBody(id) == [hasCart |-> FALSE, cart |-> <<>>, orderId |-> id]

\* a request without further body fields or parameters
NoData == [none |-> TRUE]

Request(op, productId, size, action, addressId, total) ==
    [op |-> op, productId |-> productId, size |-> size, action |-> action,
     addressId |-> addressId, total |-> total, data |-> NoData]

NoRequest == Request("none", Undefined, Undefined, "", Undefined, 0)

\* the connections a request can arrive on while another is being served
Slots == { 1, 2 }

NoDelta == [kind |-> "none", index |-> 0, quantity |-> 0, read |-> 0, items |-> <<>>]

\* no Order built yet
NoOrder == [_id |-> 0]

\* a connection on which no request has arrived
IdleSlot ==
    [pc |-> "idle", req |-> NoRequest, steps |-> <<>>,
     doc |-> [cart |-> <<>>, orderHistory |-> <<>>, v |-> 0], memory |-> <<>>,
     delta |-> NoDelta, order |-> NoOrder, readAt |-> 0,
     attempted |-> 0, completed |-> 0, failed |-> FALSE,
     status |-> 0, message |-> FALSE]

NoneInFlight ==
    [v |-> 0, slots |-> [p \in Slots |-> IdleSlot], started |-> 0, faults |-> 0,
     writes |-> 0, lastWriter |-> 0, minted |-> 0]

Init ==
    /\ catalog \in Catalogs
    /\ userExists \in BOOLEAN
    /\ cart = <<>>
    /\ addresses = SeedAddresses
    /\ orderHistory = <<>>
    /\ wishlist = <<>>
    /\ profile = SeedProfile
    /\ orders = <<>>
    /\ inflight = NoneInFlight
    /\ last = [req |-> NoRequest, status |-> 0, body |-> NoBody, pre |-> Stored]
    /\ served = 0

(***************************************************************************)
(* Request inputs                                                          *)
(***************************************************************************)
ProductIdStrings == { Str(<<"a", "1">>), Str(<<"A", "1">>), Str(<<"b", "2">>) }
BodyProductIds == ProductIdStrings \cup { Undefined, Str(<<"z", "z">>) }
BodySizes == { Undefined, Null, Str(<<"M">>), Str(<<"M", " ">>) }
AdjustSizes == { Undefined, Str(<<"M">>) }
QuerySizes == { Undefined, Str(<<>>), Str(<<"M">>) }
Actions == { "increment", "decrement", "reset" }

(***************************************************************************)
(* POST /api/cart                                                          *)
(***************************************************************************)
\* the predicate of findIndex / find / filter in the cart routes
SameItem(item, productId, size) ==
    ObjectIdToString(item.product) = productId /\ item.size = size

\* Array.prototype.findIndex, 1-based; 0 stands for -1
FindIndex(c, productId, size) ==
    IF \E i \in 1..Len(c) : SameItem(c[i], productId, size)
    THEN CHOOSE i \in 1..Len(c) :
            /\ SameItem(c[i], productId, size)
            /\ \A j \in 1..(i - 1) : ~SameItem(c[j], productId, size)
    ELSE 0

Reply(status, body, c) == [status |-> status, body |-> body, cart |-> c]

\* user.save() of a modified cart, then the 200 response with the cart
SaveCart(old, new) ==
    IF ValidCart(new) THEN Reply(200, CartBody(new), new) ELSE Reply(500, NoBody, old)

\* the handler without the early return on a missing productId
AddToCartHandler_NoIdCheck(exists, c, productId, sizeIn) ==
    LET size == DefaultNull(sizeIn)
        idx == FindIndex(c, productId, size)
    IN  IF ~exists THEN Reply(404, NoBody, c)
        ELSE IF idx > 0
             THEN SaveCart(c, [c EXCEPT ![idx].quantity = @ + 1])
             ELSE SaveCart(c, Append(c, CastCartItem(productId, 1, size)))

AddToCartHandler(exists, c, productId, sizeIn) ==
    LET size == DefaultNull(sizeIn)
        idx == FindIndex(c, productId, size)
    IN  IF ~Truthy(productId) THEN Reply(400, NoBody, c)
        ELSE IF ~exists THEN Reply(404, NoBody, c)
        ELSE IF idx > 0
             THEN SaveCart(c, [c EXCEPT ![idx].quantity = @ + 1])
             ELSE SaveCart(c, Append(c, CastCartItem(productId, 1, size)))

\* the route serving a request whose body is drawn from the given values
AddToCartWith(productIds, sizes) ==
    \E productId \in productIds, size \in sizes :
        LET r == AddToCartHandler(userExists, cart, productId, size) IN
        /\ served < MaxRequests
        /\ cart' = r.cart
        /\ last' = [req |-> Request("Add", productId, size, "", Undefined, 0),
                    status |-> r.status, body |-> r.body, pre |-> Stored]
        /\ served' = served + 1
        /\ UNCHANGED <<inflight, catalog, userExists, addresses, wishlist, profile, orderHistory, orders>>

(***************************************************************************)
(* POST /api/cart/quantity                                                 *)
(***************************************************************************)
\* Array.prototype.filter keeping the items the predicate rejects
AddToCart == AddToCartWith(BodyProductIds, BodySizes)

RECURSIVE RejectSameItem(_, _, _)
RejectSameItem(c, productId, size) ==
    IF c = <<>> THEN <<>>
    ELSE IF SameItem(Head(c), productId, size)
         THEN RejectSameItem(Tail(c), productId, size)
         ELSE <<Head(c)>> \o RejectSameItem(Tail(c), productId, size)

\* the route rewritten as an unguarded  $inc: { quantity: -1 }  update, which
\* runs no validator
AdjustQuantityHandler_NoFloor(exists, c, productId, action, sizeIn) ==
    LET size == DefaultNull(sizeIn)
        idx == FindIndex(c, productId, size)
    IN  IF ~exists THEN Reply(404, NoBody, c)
        ELSE IF idx = 0 THEN Reply(404, NoBody, c)
        ELSE IF action = "increment"
             THEN SaveCart(c, [c EXCEPT ![idx].quantity = @ + 1])
        ELSE IF action = "decrement"
             THEN LET new == [c EXCEPT ![idx].quantity = @ - 1]
                  IN  Reply(200, CartBody(new), new)
        ELSE Reply(400, NoBody, c)

\* the handler with the action validated before the line is looked up
AdjustQuantityHandler_ActionFirst(exists, c, productId, action, sizeIn) ==
    LET size == DefaultNull(sizeIn)
        idx == FindIndex(c, productId, size)
    IN  IF ~exists THEN Reply(404, NoBody, c)
        ELSE IF action # "increment" /\ action # "decrement" THEN Reply(400, NoBody, c)
        ELSE IF idx = 0 THEN Reply(404, NoBody, c)
        ELSE IF action = "increment" THEN SaveCart(c, [c EXCEPT ![idx].quantity = @ + 1])
        ELSE IF c[idx].quantity > 1
             THEN SaveCart(c, [c EXCEPT ![idx].quantity = @ - 1])
             ELSE SaveCart(c, RejectSameItem(c, productId, size))

AdjustQuantityHandler(exists, c, productId, action, sizeIn) ==
    LET size == DefaultNull(sizeIn)
        idx == FindIndex(c, productId, size)
    IN  IF ~exists THEN Reply(404, NoBody, c)
        ELSE IF idx = 0 THEN Reply(404, NoBody, c)
        ELSE IF action = "increment"
             THEN SaveCart(c, [c EXCEPT ![idx].quantity = @ + 1])
        ELSE IF action = "decrement"
             THEN IF c[idx].quantity > 1
                  THEN SaveCart(c, [c EXCEPT ![idx].quantity = @ - 1])
                  ELSE SaveCart(c, RejectSameItem(c, productId, size))
        ELSE Reply(400, NoBody, c)

AdjustQuantity ==
    \E productId \in ProductIdStrings, action \in Actions, size \in AdjustSizes :
        LET r == AdjustQuantityHandler(userExists, cart, productId, action, size) IN
        /\ served < MaxRequests
        /\ cart' = r.cart
        /\ last' = [req |-> Request("Adjust", productId, size, action, Undefined, 0),
                    status |-> r.status, body |-> r.body, pre |-> Stored]
        /\ served' = served + 1
        /\ UNCHANGED <<inflight, catalog, userExists, addresses, wishlist, profile, orderHistory, orders>>

(***************************************************************************)
(* DELETE /api/cart/:productId  and  DELETE /api/cart/clear                *)
(***************************************************************************)
\* the filter of the earlier revision, which ignores the size
RemovedItem_AnySize(item, productId, size) ==
    ObjectIdToString(item.product) = productId

\* the filter predicate of DELETE /api/cart/:productId, negated
RemovedItem(item, productId, size) ==
    /\ ObjectIdToString(item.product) = productId
    /\ OrElse(item.size, Null) = OrElse(size, Null)

RECURSIVE RejectRemoved(_, _, _)
RejectRemoved(c, productId, size) ==
    IF c = <<>> THEN <<>>
    ELSE IF RemovedItem(Head(c), productId, size)
         THEN RejectRemoved(Tail(c), productId, size)
         ELSE <<Head(c)>> \o RejectRemoved(Tail(c), productId, size)

RemoveFromCartHandler(exists, c, productId, size) ==
    IF ~exists THEN Reply(404, NoBody, c)
    ELSE SaveCart(c, RejectRemoved(c, productId, size))

\* User.updateOne({_id}, {$set: {cart: []}})
ClearCartHandler(exists, c) ==
    IF ~exists THEN Reply(404, NoBody, c) ELSE Reply(200, CartBody(<<>>), <<>>)

\* the DELETE routes under /api/cart/, in the order app.delete registers them
ClearSegment == Str(<<"c", "l", "e", "a", "r">>)
CartDeleteRoutes == << ":productId", "clear" >>

\* path matching of one route against the last path segment
RouteMatches(route, segment) == route = ":productId" \/ segment = ClearSegment

\* Express runs the first registered route that matches; its handler responds
\* without calling next()
DispatchCartDelete(exists, c, segment, size) ==
    LET first == CHOOSE i \in 1..Len(CartDeleteRoutes) :
                    /\ RouteMatches(CartDeleteRoutes[i], segment)
                    /\ \A j \in 1..(i - 1) : ~RouteMatches(CartDeleteRoutes[j], segment)
    IN  IF CartDeleteRoutes[first] = ":productId"
        THEN RemoveFromCartHandler(exists, c, segment, size)
        ELSE ClearCartHandler(exists, c)

RemoveFromCart ==
    \E productId \in ProductIdStrings, size \in QuerySizes :
        LET r == DispatchCartDelete(userExists, cart, productId, size) IN
        /\ served < MaxRequests
        /\ cart' = r.cart
        /\ last' = [req |-> Request("Remove", productId, size, "", Undefined, 0),
                    status |-> r.status, body |-> r.body, pre |-> Stored]
        /\ served' = served + 1
        /\ UNCHANGED <<inflight, catalog, userExists, addresses, wishlist, profile, orderHistory, orders>>

ClearCart ==
    LET r == DispatchCartDelete(userExists, cart, ClearSegment, Undefined) IN
    /\ served < MaxRequests
    /\ cart' = r.cart
    /\ last' = [req |-> Request("Clear", ClearSegment, Undefined, "", Undefined, 0),
                status |-> r.status, body |-> r.body, pre |-> Stored]
    /\ served' = served + 1
    /\ UNCHANGED <<inflight, catalog, userExists, addresses, wishlist, profile, orderHistory, orders>>

(***************************************************************************)
(* POST /api/checkout                                                      *)
(***************************************************************************)
AddressIds == { Undefined, Str(<<"c", "3">>), Str(<<"d", "4">>), Str(<<"e", "5">>) }
TotalAmounts == { 7, 30 }

\* falls back to the first address when the id matches none
AddressById_FirstOnMiss(addrs, id) ==
    IF IsObjectIdString(id) /\ \E i \in 1..Len(addrs) : addrs[i]._id = CastObjectId(id)
    THEN CHOOSE i \in 1..Len(addrs) :
            /\ addrs[i]._id = CastObjectId(id)
            /\ \A j \in 1..(i - 1) : addrs[j]._id # CastObjectId(id)
    ELSE 1

\* user.addresses.id(selectedAddressId): index of the sub-document, 0 for null
AddressById(addrs, id) ==
    IF IsObjectIdString(id) /\ \E i \in 1..Len(addrs) : addrs[i]._id = CastObjectId(id)
    THEN CHOOSE i \in 1..Len(addrs) :
            /\ addrs[i]._id = CastObjectId(id)
            /\ \A j \in 1..(i - 1) : addrs[j]._id # CastObjectId(id)
    ELSE 0

\* the guard without the length test
CartIsEmpty_UserOnly(exists, c) == ~exists

\* the guard of the first early return
CartIsEmpty(exists, c) == ~exists \/ Len(c) = 0

\* the snapshot with the quantity left at the schema-less default of one unit
OrderItem_OneUnit(cat, item) ==
    LET product == Populate(cat, item.product)
    IN  [product |-> product._id, name |-> product.name,
         quantity |-> 1, price |-> product.price]

\* one element of orderItems, cast by OrderItemSchema (which declares no size)
OrderItem(cat, item) ==
    LET product == Populate(cat, item.product)
        mapped == [product |-> product._id, name |-> product.name,
                   quantity |-> item.quantity, price |-> product.price,
                   size |-> OrElse(item.size, Null)]
    IN  [product |-> mapped.product, name |-> mapped.name,
         quantity |-> mapped.quantity, price |-> mapped.price]

\* deliveryAddress.toObject() cast by OrderSchema.shippingAddress
ShippingAddress(address) == [fullName |-> address.fullName, phone |-> address.phone]

\* `required: true` of a String path
RequiredString(v) == Truthy(v)

\* OrderSchema validators run by newOrder.save()
ValidOrder(order) ==
    /\ RequiredString(order.shippingAddress.fullName)
    /\ RequiredString(order.shippingAddress.phone)
    /\ \A i \in 1..Len(order.items) :
          order.items[i].product # CastError /\ RequiredString(order.items[i].name)

\* the save of a new Order replacing what the collection held
InsertOrder_Replace(os, order) == <<order>>

\* newOrder.save(): the insert of a new document into the Order collection
InsertOrder(os, order) == Append(os, order)

CheckoutReply(status, body, c, history, os) ==
    [status |-> status, body |-> body, cart |-> c, orderHistory |-> history, orders |-> os]

CheckoutHandler(exists, c, addrs, history, os, cat, selectedAddressId, totalAmount) ==
    LET unchanged(status) == CheckoutReply(status, NoBody, c, history, os)
        idx == AddressById(addrs, selectedAddressId)
        newOrder == [_id |-> Len(os) + 1,
                     user |-> CastObjectId(Str(DEMO_USER_ID)),
                     items |-> [i \in 1..Len(c) |-> OrderItem(cat, c[i])],
                     shippingAddress |-> ShippingAddress(addrs[idx]),
                     totalAmount |-> totalAmount,
                     orderStatus |-> "Processing"]
    IN  IF CartIsEmpty(exists, c) THEN unchanged(400)
        ELSE IF idx = 0 THEN unchanged(400)
        ELSE IF \E i \in 1..Len(c) : Populate(cat, c[i].product) = NoProduct
             THEN unchanged(500)
        ELSE IF ~ValidOrder(newOrder) THEN unchanged(500)
        ELSE CheckoutReply(201, OrderBody(newOrder._id), <<>>,
                           Append(history, newOrder._id), InsertOrder(os, newOrder))

\* the route serving a request whose body is drawn from the given values
CheckoutWith(addressIds, totalAmounts) ==
    \E selectedAddressId \in addressIds, totalAmount \in totalAmounts :
        LET r == CheckoutHandler(userExists, cart, addresses, orderHistory, orders,
                                 catalog, selectedAddressId, totalAmount) IN
        /\ served < MaxRequests
        /\ cart' = r.cart
        /\ orderHistory' = r.orderHistory
        /\ orders' = r.orders
        /\ last' = [req |-> Request("Checkout", Undefined, Undefined, "",
                                    selectedAddressId, totalAmount),
                    status |-> r.status, body |-> r.body, pre |-> Stored]
        /\ served' = served + 1
        /\ UNCHANGED <<inflight, catalog, userExists, addresses, wishlist, profile>>

Checkout == CheckoutWith(AddressIds, TotalAmounts)

Next ==
    \/ AddToCart
    \/ AdjustQuantity
    \/ RemoveFromCart
    \/ ClearCart
    \/ Checkout

Spec == Init /\ [][Next]_vars

(***************************************************************************)
(* Responses of the routes below                                           *)
(***************************************************************************)
MessageBody(message) == [message |-> message]

UserNotFound == MessageBody("User not found.")

\* Array.prototype.splice(i, 1) / sub-document deleteOne(), 1-based
Splice(s, i) == SubSeq(s, 1, i - 1) \o SubSeq(s, i + 1, Len(s))

\* whether the deployed Mongoose refuses to populate a path the schema lacks
StrictPopulate == BOOLEAN

(***************************************************************************)
(* GET /api/cart                                                           *)
(***************************************************************************)
GetCartHandler(exists, c, cat) ==
    IF ~exists THEN [status |-> 404, body |-> UserNotFound]
    ELSE [status |-> 200,
          body |-> [cart |-> [i \in 1..Len(c) |->
                                [c[i] EXCEPT !.product = Populate(cat, c[i].product)]]]]

GetCart ==
    LET r == GetCartHandler(userExists, cart, catalog) IN
    /\ served < MaxApiRequests
    /\ last' = [req |-> Request("GetCart", Undefined, Undefined, "", Undefined, 0),
                status |-> r.status, body |-> r.body, pre |-> Stored]
    /\ served' = served + 1
    /\ UNCHANGED <<inflight, catalog, userExists, cart, addresses, orderHistory, wishlist,
                   profile, orders>>

(***************************************************************************)
(* Wishlist routes                                                         *)
(***************************************************************************)
\* the bodies {productId, size, action} sent; "" stands for no action
WishlistBodies ==
    { [productId |-> Str(<<"a", "1">>), size |-> Undefined, action |-> "ADD"],
      [productId |-> Str(<<"a", "1">>), size |-> Str(<<"M">>), action |-> "ADD"],
      [productId |-> Str(<<"a", "1">>), size |-> Undefined, action |-> "REMOVE"],
      [productId |-> Str(<<"a", "1">>), size |-> Undefined, action |-> "TOGGLE"],
      [productId |-> Str(<<"a", "1">>), size |-> Undefined, action |-> ""],
      [productId |-> Undefined, size |-> Undefined, action |-> "ADD"] }

\* UserSchema.wishlist is an array of ObjectId: the cast of a pushed value.  A
\* plain object is cast through its toString(), which is no ObjectId string.
CastWishlistEntry(value) ==
    IF "t" \in DOMAIN value /\ IsObjectIdString(value)
    THEN CastObjectId(value)
    ELSE CastError

\* wishlist.findIndex(item => item.product.toString() === productId && ...): a
\* stored entry is an ObjectId, `item.product` is undefined and the callback
\* throws on the first entry; 0 stands for -1
WishlistFindIndex(w, productId, size) == [threw |-> Len(w) > 0, index |-> 0]

WishlistBody(w) == [wishlist |-> w]

WishlistReply(status, body, w) == [status |-> status, body |-> body, wishlist |-> w]

GetWishlistHandler(exists, w, strictPopulate) ==
    IF ~exists THEN WishlistReply(404, UserNotFound, w)
    ELSE IF strictPopulate THEN WishlistReply(500, MessageBody("Failed to fetch wishlist."), w)
    ELSE WishlistReply(200, WishlistBody(w), w)

GetWishlist ==
    \E strictPopulate \in StrictPopulate :
        LET r == GetWishlistHandler(userExists, wishlist, strictPopulate) IN
        /\ served < MaxApiRequests
        /\ last' = [req |-> [Request("GetWishlist", Undefined, Undefined, "", Undefined, 0)
                               EXCEPT !.data = [strictPopulate |-> strictPopulate]],
                    status |-> r.status, body |-> r.body, pre |-> Stored]
        /\ served' = served + 1
        /\ UNCHANGED <<inflight, catalog, userExists, cart, addresses, orderHistory, wishlist,
                       profile, orders>>

ToggleWishlistHandler(exists, w, productId, sizeIn, action, strictPopulate) ==
    LET size == DefaultNull(sizeIn)
        found == WishlistFindIndex(w, productId, size)
        entry == CastWishlistEntry([product |-> productId, size |-> size])
        failed == MessageBody("Failed to update wishlist.")
        \* user.save(), then user.populate("wishlist.product")
        saved(new) == IF strictPopulate
                      THEN WishlistReply(500, failed, new)
                      ELSE WishlistReply(200, WishlistBody(new), new)
    IN  IF ~Truthy(productId) \/ action = ""
        THEN WishlistReply(400, MessageBody("Product ID and action are required."), w)
        ELSE IF ~exists THEN WishlistReply(404, UserNotFound, w)
        ELSE IF found.threw THEN WishlistReply(500, failed, w)
        ELSE IF action = "ADD"
             THEN IF found.index = 0
                  THEN IF entry = CastError
                       THEN WishlistReply(500, failed, w)
                       ELSE saved(Append(w, entry))
                  ELSE saved(w)
        ELSE IF action = "REMOVE"
             THEN IF found.index > 0 THEN saved(Splice(w, found.index)) ELSE saved(w)
        ELSE WishlistReply(400, MessageBody("Invalid wishlist action provided."), w)

ToggleWishlist ==
    \E b \in WishlistBodies, strictPopulate \in StrictPopulate :
        LET productId == b.productId
            size == b.size
            action == b.action
            r == ToggleWishlistHandler(userExists, wishlist, productId, size, action,
                                       strictPopulate) IN
        /\ served < MaxApiRequests
        /\ wishlist' = r.wishlist
        /\ last' = [req |-> [Request("ToggleWishlist", productId, size, action, Undefined, 0)
                               EXCEPT !.data = [strictPopulate |-> strictPopulate]],
                    status |-> r.status, body |-> r.body, pre |-> Stored]
        /\ served' = served + 1
        /\ UNCHANGED <<inflight, catalog, userExists, cart, addresses, orderHistory, profile, orders>>

ClearWishlistHandler(exists, w) ==
    IF ~exists THEN WishlistReply(404, UserNotFound, w)
    ELSE WishlistReply(200, WishlistBody(<<>>), <<>>)

\* a clear that resets the cart along with the wishlist
ClearWishlist_AndCart ==
    LET r == ClearWishlistHandler(userExists, wishlist) IN
    /\ served < MaxApiRequests
    /\ wishlist' = r.wishlist
    /\ cart' = <<>>
    /\ last' = [req |-> Request("ClearWishlist", Undefined, Undefined, "", Undefined, 0),
                status |-> r.status, body |-> r.body, pre |-> Stored]
    /\ served' = served + 1
    /\ UNCHANGED <<inflight, catalog, userExists, addresses, orderHistory, profile, orders>>

ClearWishlist ==
    LET r == ClearWishlistHandler(userExists, wishlist) IN
    /\ served < MaxApiRequests
    /\ wishlist' = r.wishlist
    /\ last' = [req |-> Request("ClearWishlist", Undefined, Undefined, "", Undefined, 0),
                status |-> r.status, body |-> r.body, pre |-> Stored]
    /\ served' = served + 1
    /\ UNCHANGED <<inflight, catalog, userExists, cart, addresses, orderHistory, profile, orders>>

(***************************************************************************)
(* Profile routes                                                          *)
(***************************************************************************)
OtherUserId == CastObjectId(Str(<<"7", "0">>))
OtherUserEmail == Str(<<"o", "@", "e", ".", "x">>)

\* the emails the unique index holds for other users
TakenEmails == { OtherUserEmail }

\* the `match` validator of UserSchema.email: /.+@.+\..+/
MatchesEmail(v) ==
    /\ v.t = "string"
    /\ \E i, j \in 1..Len(v.s) :
          /\ 1 < i /\ v.s[i] = "@"
          /\ i + 1 < j /\ v.s[j] = "."
          /\ j < Len(v.s)

ProfileBodies ==
    { [name |-> Str(<<"N">>), email |-> Undefined],
      [name |-> Undefined, email |-> OtherUserEmail],
      [name |-> Undefined, email |-> Str(<<"x">>)],
      [name |-> Str(<<"N">>), email |-> Str(<<"n", "@", "e", ".", "x">>)] }

\* populate of an array of Product references: entries without a Product drop out
PopulateAll(cat, ids) ==
    LET Known(oid) == Populate(cat, oid) # NoProduct
        kept == SelectSeq(ids, Known)
    IN  [i \in 1..Len(kept) |-> Populate(cat, kept[i])]

\* an order's ObjectId; orders are numbered in creation order
OrderObjectId(n) == << 0, n >>

GetProfileHandler(exists, prof, addrs, c, w, history, os, cat) ==
    IF ~exists
    THEN [status |-> 404, body |-> MessageBody("User not found. Check DEMO_USER_ID or seeding.")]
    ELSE [status |-> 200,
          body |-> [name |-> prof.name, email |-> prof.email, addresses |-> addrs,
                    cart |-> c, wishlist |-> PopulateAll(cat, w),
                    orderHistory |->
                        LET Persisted(id) == \E k \in 1..Len(os) : os[k]._id = id
                            kept == SelectSeq(history, Persisted)
                        IN  [i \in 1..Len(kept) |->
                                CHOOSE o \in { os[k] : k \in 1..Len(os) } : o._id = kept[i]]]]

GetProfile ==
    LET r == GetProfileHandler(userExists, profile, addresses, cart, wishlist,
                               orderHistory, orders, catalog) IN
    /\ served < MaxApiRequests
    /\ last' = [req |-> Request("GetProfile", Undefined, Undefined, "", Undefined, 0),
                status |-> r.status, body |-> r.body, pre |-> Stored]
    /\ served' = served + 1
    /\ UNCHANGED <<inflight, catalog, userExists, cart, addresses, orderHistory, wishlist,
                   profile, orders>>

\* findByIdAndUpdate(userId, {name, email, phone}, {new: true, runValidators: true}):
\* undefined keys are dropped, the validators of the paths set run before the
\* update is sent, and the unique index answers E11000 for a taken email
UpdateProfileHandler(exists, prof, body) ==
    LET new == [name  |-> IF body.name = Undefined THEN prof.name ELSE body.name,
                email |-> IF body.email = Undefined THEN prof.email ELSE body.email]
        valid == /\ body.name # Undefined => Truthy(body.name)
                 /\ body.email # Undefined => MatchesEmail(body.email)
        reply(status, body_, p) == [status |-> status, body |-> body_, profile |-> p]
    IN  IF ~valid THEN reply(500, MessageBody("Failed to update user profile."), prof)
        ELSE IF ~exists THEN reply(404, UserNotFound, prof)
        ELSE IF body.email \in TakenEmails
             THEN reply(409, MessageBody("Email already in use."), prof)
        ELSE reply(200, [message |-> "Profile updated successfully.", user |-> new], new)

UpdateProfile ==
    \E body \in ProfileBodies :
        LET r == UpdateProfileHandler(userExists, profile, body) IN
        /\ served < MaxApiRequests
        /\ profile' = r.profile
        /\ last' = [req |-> [Request("UpdateProfile", Undefined, Undefined, "", Undefined, 0)
                               EXCEPT !.data = body],
                    status |-> r.status, body |-> r.body, pre |-> Stored]
        /\ served' = served + 1
        /\ UNCHANGED <<inflight, catalog, userExists, cart, addresses, orderHistory, wishlist, orders>>

(***************************************************************************)
(* Order routes                                                            *)
(***************************************************************************)
OrderIdStrings ==
    { Str(<<"0", "1">>), Str(<<"0", "2">>), Str(<<"0", "9">>), Str(<<"z", "z">>) }

\* an Order document with populate('items.product', 'name price imageUrl')
PopulateOrder(cat, order) ==
    [order EXCEPT !.items = [i \in 1..Len(order.items) |->
        [order.items[i] EXCEPT !.product = Populate(cat, order.items[i].product)]]]

\* Order.find({user: userId}).sort({createdAt: -1}): newest first
RECURSIVE OrdersOf(_, _)
OrdersOf(os, userId) ==
    IF os = <<>> THEN <<>>
    ELSE LET rest == OrdersOf(SubSeq(os, 1, Len(os) - 1), userId)
             o == os[Len(os)]
         IN  IF o.user = userId THEN <<o>> \o rest ELSE rest

ListOrdersHandler(os, cat, userId) ==
    LET own == OrdersOf(os, CastObjectId(Str(userId)))
    IN  [status |-> 200,
         body |-> [orders |-> [i \in 1..Len(own) |-> PopulateOrder(cat, own[i])]]]

ListOrders ==
    LET r == ListOrdersHandler(orders, catalog, DEMO_USER_ID) IN
    /\ served < MaxApiRequests
    /\ last' = [req |-> Request("ListOrders", Undefined, Undefined, "", Undefined, 0),
                status |-> r.status, body |-> r.body, pre |-> Stored]
    /\ served' = served + 1
    /\ UNCHANGED <<inflight, catalog, userExists, cart, addresses, orderHistory, wishlist,
                   profile, orders>>

OrderNotFound == MessageBody("Order not found or access denied.")

\* the documents Order.findOne({_id: orderId}) matches, whoever owns them
MatchingOrders_AnyOwner(os, orderId, userId) ==
    { k \in 1..Len(os) : OrderObjectId(os[k]._id) = CastObjectId(orderId) }

\* the documents Order.findOne({_id: orderId, user: userId}) matches
MatchingOrders(os, orderId, userId) ==
    { k \in 1..Len(os) :
        /\ OrderObjectId(os[k]._id) = CastObjectId(orderId)
        /\ os[k].user = CastObjectId(Str(userId)) }

GetOrderHandler(os, cat, orderId, userId) ==
    LET found == MatchingOrders(os, orderId, userId)
    IN  IF ~IsObjectIdString(orderId)
        THEN [status |-> 500, body |-> MessageBody("Failed to fetch order details.")]
        ELSE IF found = {} THEN [status |-> 404, body |-> OrderNotFound]
        ELSE [status |-> 200,
              body |-> [order |-> PopulateOrder(cat, os[CHOOSE k \in found : TRUE])]]

GetOrder ==
    \E orderId \in OrderIdStrings :
        LET r == GetOrderHandler(orders, catalog, orderId, DEMO_USER_ID) IN
        /\ served < MaxApiRequests
        /\ last' = [req |-> [Request("GetOrder", Undefined, Undefined, "", Undefined, 0)
                               EXCEPT !.data = [orderId |-> orderId]],
                    status |-> r.status, body |-> r.body, pre |-> Stored]
        /\ served' = served + 1
        /\ UNCHANGED <<inflight, catalog, userExists, cart, addresses, orderHistory, wishlist,
                       profile, orders>>

(***************************************************************************)
(* Address routes                                                          *)
(***************************************************************************)
\* the :addressId path parameters sent
AddressParams == { Str(<<"c", "3">>), Str(<<"d", "4">>), Str(<<"e", "5">>) }

\* the bodies sent to create an address
NewAddressBodies ==
    { [fullName |-> Str(<<"n">>), phone |-> Undefined],
      [fullName |-> Str(<<"n">>), phone |-> Str(<<"7">>)],
      [fullName |-> Undefined, phone |-> Str(<<"7">>)] }

\* the bodies sent to update an address; a field left out is undefined
AddressUpdates ==
    { [fullName |-> Str(<<"n">>), phone |-> Undefined],
      [fullName |-> Str(<<>>), phone |-> Undefined],
      [fullName |-> Undefined, phone |-> Str(<<"7">>)] }

\* the _id Mongoose generates for a pushed sub-document: distinct for each request
NewAddressId(n) == << 14, 5 + n >>

\* AddressSchema applied to a pushed object
CastAddress(body, id) == [_id |-> id, fullName |-> body.fullName, phone |-> body.phone]

\* AddressSchema validators run by user.save()
ValidAddress(address) == RequiredString(address.fullName)

\* Object.assign(addressToUpdate, updatedAddressData)
AssignAddress(address, body) ==
    [address EXCEPT !.fullName = IF body.fullName = Undefined THEN @ ELSE body.fullName,
                    !.phone = IF body.phone = Undefined THEN @ ELSE body.phone]

AddressReply(status, body, addrs) ==
    [status |-> status, body |-> body, addresses |-> addrs]

AddressNotFound == MessageBody("Address not found.")

ListAddressesHandler(exists, addrs) ==
    IF ~exists THEN AddressReply(404, UserNotFound, addrs)
    ELSE AddressReply(200, [addresses |-> addrs], addrs)

ListAddresses ==
    LET r == ListAddressesHandler(userExists, addresses) IN
    /\ served < MaxApiRequests
    /\ last' = [req |-> Request("ListAddresses", Undefined, Undefined, "", Undefined, 0),
                status |-> r.status, body |-> r.body, pre |-> Stored]
    /\ served' = served + 1
    /\ UNCHANGED <<inflight, catalog, userExists, cart, addresses, orderHistory, wishlist,
                   profile, orders>>

CreateAddressHandler(exists, addrs, body, id) ==
    LET added == CastAddress(body, id)
    IN  IF ~exists THEN AddressReply(404, UserNotFound, addrs)
        ELSE IF ~ValidAddress(added)
             THEN AddressReply(500, MessageBody("Failed to add address."), addrs)
        ELSE AddressReply(201, [message |-> "Address added successfully.",
                                address |-> added], Append(addrs, added))

CreateAddress ==
    \E body \in NewAddressBodies :
        LET r == CreateAddressHandler(userExists, addresses, body, NewAddressId(served)) IN
        /\ served < MaxApiRequests
        /\ addresses' = r.addresses
        /\ last' = [req |-> [Request("CreateAddress", Undefined, Undefined, "", Undefined, 0)
                               EXCEPT !.data = body],
                    status |-> r.status, body |-> r.body, pre |-> Stored]
        /\ served' = served + 1
        /\ UNCHANGED <<inflight, catalog, userExists, cart, orderHistory, wishlist, profile, orders>>

UpdateAddressHandler(exists, addrs, addressId, body) ==
    LET idx == AddressById(addrs, addressId)
        updated == AssignAddress(addrs[idx], body)
    IN  IF ~exists THEN AddressReply(404, UserNotFound, addrs)
        ELSE IF idx = 0 THEN AddressReply(404, AddressNotFound, addrs)
        ELSE IF ~ValidAddress(updated)
             THEN AddressReply(500, MessageBody("Failed to update address."), addrs)
        ELSE AddressReply(200, [message |-> "Address updated successfully.",
                                address |-> updated], [addrs EXCEPT ![idx] = updated])

UpdateAddress ==
    \E addressId \in AddressParams, body \in AddressUpdates :
        LET r == UpdateAddressHandler(userExists, addresses, addressId, body) IN
        /\ served < MaxApiRequests
        /\ addresses' = r.addresses
        /\ last' = [req |-> [Request("UpdateAddress", Undefined, Undefined, "", addressId, 0)
                               EXCEPT !.data = body],
                    status |-> r.status, body |-> r.body, pre |-> Stored]
        /\ served' = served + 1
        /\ UNCHANGED <<inflight, catalog, userExists, cart, orderHistory, wishlist, profile, orders>>

DeleteAddressHandler(exists, addrs, addressId) ==
    LET idx == AddressById(addrs, addressId)
    IN  IF ~exists THEN AddressReply(404, UserNotFound, addrs)
        ELSE IF idx = 0 THEN AddressReply(404, AddressNotFound, addrs)
        ELSE AddressReply(200, MessageBody("Address removed successfully."),
                          Splice(addrs, idx))

DeleteAddress ==
    \E addressId \in AddressParams :
        LET r == DeleteAddressHandler(userExists, addresses, addressId) IN
        /\ served < MaxApiRequests
        /\ addresses' = r.addresses
        /\ last' = [req |-> Request("DeleteAddress", Undefined, Undefined, "", addressId, 0),
                    status |-> r.status, body |-> r.body, pre |-> Stored]
        /\ served' = served + 1
        /\ UNCHANGED <<inflight, catalog, userExists, cart, orderHistory, wishlist, profile, orders>>

(***************************************************************************)
(* The whole API over a store that other users share                       *)
(***************************************************************************)
\* an Order another user placed earlier
OtherUsersOrder ==
    [_id |-> 1,
     user |-> OtherUserId,
     items |-> << [product |-> P1, name |-> Str(<<"s">>), quantity |-> 1, price |-> 10] >>,
     shippingAddress |-> [fullName |-> Str(<<"o">>), phone |-> Str(<<"8">>)],
     totalAmount |-> 10,
     orderStatus |-> "Shipped"]

InitApi ==
    /\ catalog \in Catalogs
    /\ userExists \in BOOLEAN
    /\ cart = <<>>
    /\ addresses = SeedAddresses
    /\ orderHistory = <<>>
    /\ wishlist \in { <<>>, <<P1>> }
    /\ profile = SeedProfile
    /\ orders = <<OtherUsersOrder>>
    /\ inflight = NoneInFlight
    /\ last = [req |-> NoRequest, status |-> 0, body |-> NoBody, pre |-> Stored]
    /\ served = 0

\* the request bodies sent to the cart and checkout routes
ApiProductIds == { Str(<<"a", "1">>), Str(<<"b", "2">>) }
ApiSizes == { Undefined }
ApiTotalAmounts == { 7 }

NextApi ==
    \/ GetCart
    \/ served < MaxApiRequests /\ AddToCartWith(ApiProductIds, ApiSizes)
    \/ GetWishlist
    \/ ToggleWishlist
    \/ ClearWishlist
    \/ GetProfile
    \/ UpdateProfile
    \/ ListOrders
    \/ GetOrder
    \/ ListAddresses
    \/ CreateAddress
    \/ UpdateAddress
    \/ DeleteAddress
    \/ served < MaxApiRequests /\ CheckoutWith(AddressParams, ApiTotalAmounts)

SpecApi == InitApi /\ [][NextApi]_vars

\* every route of the API, the remaining cart routes included
NextAll ==
    \/ NextApi
    \/ served < MaxApiRequests /\ AdjustQuantity
    \/ served < MaxApiRequests /\ RemoveFromCart
    \/ served < MaxApiRequests /\ ClearCart

\* the demo user exists and the catalog holds both products
InitAll ==
    /\ InitApi
    /\ userExists
    /\ Cardinality(catalog) = 2

SpecAll == InitAll /\ [][NextAll]_vars

(***************************************************************************)
(* Requests served concurrently, store call by store call                  *)
(***************************************************************************)
\* the requests that arrive while another may be in flight
ConcurrentRequests ==
    { Request("Add", Str(<<"a", "1">>), Undefined, "", Undefined, 0),
      Request("Add", Str(<<"b", "2">>), Undefined, "", Undefined, 0),
      Request("Adjust", Str(<<"a", "1">>), Undefined, "increment", Undefined, 0),
      Request("Adjust", Str(<<"a", "1">>), Undefined, "decrement", Undefined, 0),
      Request("Checkout", Undefined, Undefined, "", Str(<<"c", "3">>), 7) }

\* the store calls that follow the read of the User in the cart routes
CartWrites == << "saveCart", "populate" >>

\* checkout with the User saved before the Order
CheckoutWrites_UserFirst == << "saveUser", "saveOrder" >>

\* the store calls that follow the read of the User in checkout
CheckoutWrites == << "saveOrder", "saveUser" >>

StepsOf(op) == IF op = "Checkout" THEN CheckoutWrites ELSE CartWrites

SuccessStatus(op) == IF op = "Checkout" THEN 201 ELSE 200

\* what the route computes from the document it read, were nothing to fail
Computed(req, doc) ==
    IF req.op = "Add"
    THEN AddToCartHandler(userExists, doc.cart, req.productId, req.size)
    ELSE IF req.op = "Adjust"
    THEN AdjustQuantityHandler(userExists, doc.cart, req.productId, req.action, req.size)
    ELSE LET r == CheckoutHandler(userExists, doc.cart, addresses, doc.orderHistory,
                                  <<>>, catalog, req.addressId, req.total)
         IN  [status |-> r.status, body |-> r.body, cart |-> r.cart]

\* the change user.save() sends for the cart: a $push of the appended line, a
\* $set of one line's quantity, a $set of the whole array, or nothing
DeltaOf(old, new) ==
    IF new = old THEN NoDelta
    ELSE IF Len(new) = Len(old) + 1 /\ SubSeq(new, 1, Len(old)) = old
    THEN [NoDelta EXCEPT !.kind = "push", !.items = <<new[Len(new)]>>]
    ELSE IF Len(new) = Len(old)
    THEN LET i == CHOOSE i \in 1..Len(old) : new[i] # old[i]
         IN  [NoDelta EXCEPT !.kind = "setQuantity", !.index = i,
                             !.quantity = new[i].quantity, !.read = old[i].quantity]
    ELSE [NoDelta EXCEPT !.kind = "setCart", !.items = new]

\* the update carries the __v it read in its filter
VersionWhere(kind) == kind \in { "setQuantity", "setCart", "checkout" }

\* the update increments __v
VersionInc(kind) == kind \in { "push", "setCart", "checkout" }

\* the quantity written as an atomic increment of what is stored
SetQuantity_Inc(c, index, quantity, read) ==
    [c EXCEPT ![index].quantity = @ + (quantity - read)]

\* $set of cart.<index>.quantity to the value computed from the document read
SetQuantity(c, index, quantity, read) == [c EXCEPT ![index].quantity = quantity]

\* the stored cart after the update
ApplyDelta(c, delta) ==
    IF delta.kind = "push" THEN c \o delta.items
    ELSE IF delta.kind = "setQuantity"
    THEN SetQuantity(c, delta.index, delta.quantity, delta.read)
    ELSE IF delta.kind = "setCart" THEN delta.items
    ELSE c

\* the catch block answering a failure as if the request had succeeded
Caught_AsSuccess(slot) ==
    [slot EXCEPT !.pc = "done", !.steps = <<>>, !.failed = TRUE,
                 !.status = SuccessStatus(slot.req.op), !.message = FALSE]

\* the catch block: 500 with a message
Caught(slot) ==
    [slot EXCEPT !.pc = "done", !.steps = <<>>, !.failed = TRUE,
                 !.status = 500, !.message = TRUE]

\* an early return of the route with a 4xx/5xx status and a message
Refused(slot, status) ==
    [slot EXCEPT !.pc = "done", !.steps = <<>>, !.status = status, !.message = TRUE]

\* the store call succeeded: on to the next one, or to the success response
Advance(slot) ==
    LET rest == Tail(slot.steps)
    IN  IF rest = <<>>
        THEN [slot EXCEPT !.pc = "done", !.steps = <<>>,
                          !.status = SuccessStatus(slot.req.op)]
        ELSE [slot EXCEPT !.pc = Head(rest), !.steps = rest]

\* whether this store call fails; at most MaxFaults calls fail in a behaviour
Faults == { f \in BOOLEAN : f => inflight.faults < MaxFaults }

Faulted(f) == IF f THEN inflight.faults + 1 ELSE inflight.faults

\* a request arrives and the route reads the User document
Receive ==
    \E p \in Slots, req \in ConcurrentRequests, fault \in Faults :
        LET doc == [cart |-> cart, orderHistory |-> orderHistory, v |-> inflight.v]
            r == Computed(req, doc)
            fresh == [IdleSlot EXCEPT !.req = req, !.doc = doc,
                                      !.readAt = inflight.writes]
            order == [CheckoutHandler(userExists, cart, addresses, orderHistory, <<>>,
                                      catalog, req.addressId, req.total).orders[1]
                        EXCEPT !._id = Len(orders) + inflight.minted + 1]
            started == IF fault THEN Caught(fresh)
                       ELSE IF r.status # SuccessStatus(req.op) THEN Refused(fresh, r.status)
                       ELSE IF req.op = "Checkout"
                       THEN [fresh EXCEPT !.pc = Head(StepsOf(req.op)),
                                          !.steps = StepsOf(req.op),
                                          !.memory = r.cart,
                                          !.delta = [NoDelta EXCEPT !.kind = "checkout"],
                                          !.order = order]
                       ELSE [fresh EXCEPT !.pc = Head(StepsOf(req.op)),
                                          !.steps = StepsOf(req.op),
                                          !.memory = r.cart,
                                          !.delta = DeltaOf(cart, r.cart)]
        IN  /\ inflight.slots[p].pc \in { "idle", "done" }
            /\ inflight.started < MaxConcRequests
            /\ inflight' = [inflight EXCEPT
                   !.slots[p] = started,
                   !.started = @ + 1,
                   !.faults = Faulted(fault),
                   !.minted = IF started.delta.kind = "checkout" THEN @ + 1 ELSE @]
            /\ UNCHANGED <<catalog, userExists, cart, addresses, orderHistory, wishlist,
                           profile, orders, last, served>>

\* a write whose filter names a __v the stored document no longer has
VersionError(slot) == VersionWhere(slot.delta.kind) /\ inflight.v # slot.doc.v

\* await user.save() of a cart route
SaveCartStep ==
    \E p \in Slots, fault \in Faults :
        LET slot == inflight.slots[p]
            sent == [slot EXCEPT !.attempted = @ + 1]
            wrote == [sent EXCEPT !.completed = @ + 1]
        IN  /\ slot.pc = "saveCart"
            /\ IF slot.delta.kind = "none"
               THEN /\ inflight' = [inflight EXCEPT !.slots[p] = Advance(slot)]
                    /\ cart' = cart
               ELSE IF fault \/ VersionError(slot)
               THEN /\ inflight' = [inflight EXCEPT !.slots[p] = Caught(sent),
                                                    !.faults = Faulted(fault)]
                    /\ cart' = cart
               ELSE /\ inflight' = [inflight EXCEPT
                           !.slots[p] = Advance(wrote),
                           !.v = IF VersionInc(slot.delta.kind) THEN @ + 1 ELSE @,
                           !.writes = @ + 1,
                           !.lastWriter = p]
                    /\ cart' = ApplyDelta(cart, slot.delta)
            /\ UNCHANGED <<catalog, userExists, addresses, orderHistory, wishlist,
                           profile, orders, last, served>>

\* await user.populate("cart.product"), then the 200 response
PopulateStep ==
    \E p \in Slots, fault \in Faults :
        LET slot == inflight.slots[p]
        IN  /\ slot.pc = "populate"
            /\ inflight' = [inflight EXCEPT
                   !.slots[p] = IF fault THEN Caught(slot) ELSE Advance(slot),
                   !.faults = Faulted(fault)]
            /\ UNCHANGED <<catalog, userExists, cart, addresses, orderHistory, wishlist,
                           profile, orders, last, served>>

\* await newOrder.save()
SaveOrderStep ==
    \E p \in Slots, fault \in Faults :
        LET slot == inflight.slots[p]
            sent == [slot EXCEPT !.attempted = @ + 1]
            wrote == [sent EXCEPT !.completed = @ + 1]
        IN  /\ slot.pc = "saveOrder"
            /\ IF fault
               THEN /\ inflight' = [inflight EXCEPT !.slots[p] = Caught(sent),
                                                    !.faults = Faulted(fault)]
                    /\ orders' = orders
               ELSE /\ inflight' = [inflight EXCEPT !.slots[p] = Advance(wrote)]
                    /\ orders' = InsertOrder(orders, slot.order)
            /\ UNCHANGED <<catalog, userExists, cart, addresses, orderHistory, wishlist,
                           profile, last, served>>

\* user.cart = []; user.orderHistory.push(savedOrder._id); await user.save()
SaveUserStep ==
    \E p \in Slots, fault \in Faults :
        LET slot == inflight.slots[p]
            sent == [slot EXCEPT !.attempted = @ + 1]
            wrote == [sent EXCEPT !.completed = @ + 1]
        IN  /\ slot.pc = "saveUser"
            /\ IF fault \/ VersionError(slot)
               THEN /\ inflight' = [inflight EXCEPT !.slots[p] = Caught(sent),
                                                    !.faults = Faulted(fault)]
                    /\ UNCHANGED <<cart, orderHistory>>
               ELSE /\ inflight' = [inflight EXCEPT
                           !.slots[p] = Advance(wrote),
                           !.v = @ + 1,
                           !.writes = @ + 1,
                           !.lastWriter = p]
                    /\ cart' = <<>>
                    /\ orderHistory' = Append(orderHistory, slot.order._id)
            /\ UNCHANGED <<catalog, userExists, addresses, wishlist, profile, orders,
                           last, served>>

\* the carts the concurrent requests find
InitialCarts ==
    { << CastCartItem(Str(<<"a", "1">>), 1, Null) >>,
      << CastCartItem(Str(<<"a", "1">>), 2, Null) >> }

InitConc ==
    /\ catalog \in Catalogs
    /\ userExists = TRUE
    /\ cart \in InitialCarts
    /\ addresses = SeedAddresses
    /\ orderHistory = <<>>
    /\ wishlist = <<>>
    /\ profile = SeedProfile
    /\ orders = <<>>
    /\ inflight = NoneInFlight
    /\ last = [req |-> NoRequest, status |-> 0, body |-> NoBody, pre |-> Stored]
    /\ served = 0

NextConc ==
    \/ Receive
    \/ SaveCartStep
    \/ PopulateStep
    \/ SaveOrderStep
    \/ SaveUserStep

SpecConc == InitConc /\ [][NextConc]_vars

(***************************************************************************)
(* GET /api/products                                                       *)
(***************************************************************************)
P3 == CastObjectId(Str(<<"c", "9">>))

\* Product documents with the paths the listing filters and sorts on; the
\* category names of the ProductSchema enum are shortened to one character
ListedProducts ==
    { [_id |-> P1, name |-> Str(<<"S", "h">>), price |-> 10,
       category |-> Str(<<"m">>), rating |-> 4],
      [_id |-> P2, name |-> Str(<<"d">>), price |-> 20,
       category |-> Str(<<"w">>), rating |-> 5],
      [_id |-> P3, name |-> Str(<<"s", "o">>), price |-> 10,
       category |-> Str(<<"k">>), rating |-> 3] }

\* req.query of the requests sent; a parameter left out is undefined
ProductQueries ==
    [category : { Undefined, Str(<<"m">>), Str(<<"m", ",", "w">>) },
     rating   : { Undefined, Str(<<"4">>) },
     q        : { Undefined, Str(<<"s">>), Str(<<"H">>), Str(<<".">>), Str(<<"(">>) },
     sort     : { Undefined, Str(<<"priceLowToHigh">>), Str(<<"priceHighToLow">>) }]

\* String.prototype.split(','): the pieces between the separators
RECURSIVE Split(_, _)
Split(cs, sep) ==
    IF \E i \in 1..Len(cs) : cs[i] = sep
    THEN LET i == CHOOSE i \in 1..Len(cs) :
                     cs[i] = sep /\ \A j \in 1..(i - 1) : cs[j] # sep
         IN  <<Str(SubSeq(cs, 1, i - 1))>> \o Split(SubSeq(cs, i + 1, Len(cs)), sep)
    ELSE <<Str(cs)>>

Digits == <<"0", "1", "2", "3", "4", "5", "6", "7", "8", "9">>

NaN == -1

\* Number(rating) of a string of decimal digits; NaN for any other string
RECURSIVE Number(_)
Number(cs) ==
    IF cs = <<>> THEN 0
    ELSE IF \A i \in 1..Len(cs) : \E d \in 1..Len(Digits) : Digits[d] = cs[i]
    THEN LET d == CHOOSE d \in 1..Len(Digits) : Digits[d] = cs[Len(cs)]
         IN  10 * Number(SubSeq(cs, 1, Len(cs) - 1)) + (d - 1)
    ELSE NaN

LowerCase == <<"d", "h", "o", "s">>
UpperCase == <<"D", "H", "O", "S">>

\* the case folding of the 'i' flag
Fold(c) ==
    IF \E i \in 1..Len(UpperCase) : UpperCase[i] = c
    THEN LowerCase[CHOOSE i \in 1..Len(UpperCase) : UpperCase[i] = c]
    ELSE c

\* new RegExp(q, 'i') throws a SyntaxError on an unterminated group
RegExpThrows(q) == \E i \in 1..Len(q.s) : q.s[i] = "("

\* one pattern character against one character of the text: "." matches any
PatternMatches(pc, c) == pc = "." \/ Fold(pc) = Fold(c)

\* { $regex: new RegExp(q, 'i') }: the pattern matches somewhere in the text
RegExpTest(q, text) ==
    \E at \in 0..(Len(text.s) - Len(q.s)) :
        \A k \in 1..Len(q.s) : PatternMatches(q.s[k], text.s[at + k])

\* the documents Product.find(query) selects
FindProducts(cat, query) ==
    { p \in cat :
        /\ Truthy(query.category) =>
               \E i \in 1..Len(Split(query.category.s, ",")) :
                   Split(query.category.s, ",")[i] = p.category
        /\ Truthy(query.rating) => p.rating >= Number(query.rating.s)
        /\ Truthy(query.q) => RegExpTest(query.q, p.name) }

\* .sort(sortOptions): the orders in which the cursor may return the documents
SortedBy(ps, sort) ==
    { s \in [1..Cardinality(ps) -> ps] :
        /\ \A i, j \in 1..Cardinality(ps) : i # j => s[i] # s[j]
        /\ sort = Str(<<"priceLowToHigh">>) =>
               \A i \in 1..(Cardinality(ps) - 1) : s[i].price <= s[i + 1].price
        /\ sort = Str(<<"priceHighToLow">>) =>
               \A i \in 1..(Cardinality(ps) - 1) : s[i].price >= s[i + 1].price }

\* the responses the route may give
ListProductsHandler(cat, query) ==
    IF \/ Truthy(query.q) /\ RegExpThrows(query.q)
       \/ Truthy(query.rating) /\ Number(query.rating.s) = NaN
    THEN { [status |-> 500, body |-> MessageBody("Error fetching products.")] }
    ELSE { [status |-> 200, body |-> [products |-> s]] :
             s \in SortedBy(FindProducts(cat, query), query.sort) }

ListProducts ==
    \E query \in ProductQueries :
        \E r \in ListProductsHandler(catalog, query) :
            /\ served < MaxApiRequests
            /\ last' = [req |-> [Request("ListProducts", Undefined, Undefined, "",
                                         Undefined, 0) EXCEPT !.data = query],
                        status |-> r.status, body |-> r.body, pre |-> Stored]
            /\ served' = served + 1
            /\ UNCHANGED <<inflight, catalog, userExists, cart, addresses, orderHistory,
                           wishlist, profile, orders>>

InitProducts ==
    /\ catalog \in SUBSET ListedProducts
    /\ userExists = TRUE
    /\ cart = <<>>
    /\ addresses = SeedAddresses
    /\ orderHistory = <<>>
    /\ wishlist = <<>>
    /\ profile = SeedProfile
    /\ orders = <<>>
    /\ inflight = NoneInFlight
    /\ last = [req |-> NoRequest, status |-> 0, body |-> NoBody, pre |-> Stored]
    /\ served = 0

NextProducts == ListProducts

SpecProducts == InitProducts /\ [][NextProducts]_vars

(***************************************************************************)
(* Properties                                                              *)
(***************************************************************************)
Before == last.pre.cart
Op(op) == last.req.op = op
Succeeded(op) == last.req.op = op /\ last.status = 200

\* the (product reference, variant label) under which a request's line is stored
StoredKey(req) == CastCartItem(req.productId, 1, DefaultNull(req.size))
HasKey(item, key) == item.product = key.product /\ item.size = key.size
KeyIndices(c, key) == { i \in 1..Len(c) : HasKey(c[i], key) }

\* the lines of c the request's own (productId, size) selects
Selected(c, req) ==
    { i \in 1..Len(c) : SameItem(c[i], req.productId, DefaultNull(req.size)) }

RemoveAt(c, i) == SubSeq(c, 1, i - 1) \o SubSeq(c, i + 1, Len(c))

\* C1: in every reachable state the persisted cart holds at most one line per
\* (product reference, variant label) as stored, null being a label of its own.
C1_OneLinePerKey ==
    \A i, j \in 1..Len(cart) : HasKey(cart[i], cart[j]) => i = j

\* C2: a successful Add raises the quantity of the line stored under the same
\* (product, variant) by exactly 1 and adds no line, or, when there is none,
\* appends exactly one line of quantity 1; every other line is unchanged.  Hence
\* two consecutive Adds of one (product, variant) that was not in the cart leave
\* exactly one such line, of quantity 2.
C2_AddContract ==
    [][ (last'.req.op = "Add" /\ last'.status = 200) =>
          LET key == StoredKey(last'.req)
              held == KeyIndices(cart, key)
          IN  /\ IF held # {}
                 THEN \E i \in held : cart' = [cart EXCEPT ![i].quantity = @ + 1]
                 ELSE cart' = Append(cart, key)
              /\ (/\ Succeeded("Add")
                  /\ last.req = last'.req
                  /\ KeyIndices(Before, key) = {})
                 => \E i \in 1..Len(cart') :
                       /\ KeyIndices(cart', key) = {i}
                       /\ cart'[i].quantity = 2
      ]_vars

\* C3: a successful AdjustQuantity on an existing line raises its quantity by 1
\* (increment), lowers it by 1 and keeps the line (decrement, quantity > 1), or
\* removes that line (decrement, quantity 1); every other line is unchanged.
C3_AdjustContract ==
    Succeeded("Adjust") =>
        \E i \in Selected(Before, last.req) :
            IF last.req.action = "increment"
            THEN cart = [Before EXCEPT ![i].quantity = @ + 1]
            ELSE IF Before[i].quantity > 1
                 THEN cart = [Before EXCEPT ![i].quantity = @ - 1]
                 ELSE cart = RemoveAt(Before, i)

\* C4: every line of the persisted cart has an integer quantity >= 1.
C4_QuantityAtLeastOne ==
    \A i \in 1..Len(cart) : cart[i].quantity \in Nat /\ cart[i].quantity >= 1

\* a decrement has just acted on a line of quantity 1 and other lines remain
C4_Witness ==
    /\ Succeeded("Adjust")
    /\ last.req.action = "decrement"
    /\ \E i \in Selected(Before, last.req) : Before[i].quantity = 1
    /\ cart # <<>>

\* C5: a successful Remove without a variant filter leaves no line of that
\* product in the cart, whatever the line's variant.
C5_RemoveAllVariants ==
    (Succeeded("Remove") /\ last.req.size = Undefined) =>
        \A i \in 1..Len(cart) : ObjectIdToString(cart[i].product) # last.req.productId

C7_ClearEmptiesCart ==
    (Op("Clear") /\ userExists) =>
        /\ last.status = 200
        /\ last.body = CartBody(<<>>)
        /\ cart = <<>>

\* C8: a checkout answered 201 has created exactly one Order, whose items are the
\* lines of the cart it read, one to one and in order, with the product's catalog
\* name and price; the cart is empty afterwards and the Order's id was appended to
\* orderHistory, where it occurs once.
C8_CheckoutSnapshot ==
    (Op("Checkout") /\ last.status = 201) =>
        /\ Len(orders) = Len(last.pre.orders) + 1
        /\ SubSeq(orders, 1, Len(last.pre.orders)) = last.pre.orders
        /\ LET order == orders[Len(orders)] IN
           /\ \A k \in 1..Len(last.pre.orders) : orders[k]._id # order._id
           /\ Len(order.items) = Len(Before)
           /\ \A i \in 1..Len(Before) :
                 /\ order.items[i].product = Before[i].product
                 /\ order.items[i].quantity = Before[i].quantity
                 /\ \E p \in catalog :
                       /\ p._id = Before[i].product
                       /\ p.name = order.items[i].name
                       /\ p.price = order.items[i].price
           /\ last.body.orderId = order._id
           /\ orderHistory = Append(last.pre.orderHistory, order._id)
           /\ Cardinality({ j \in 1..Len(orderHistory) : orderHistory[j] = order._id }) = 1
        /\ cart = <<>>

\* a checkout of two lines, one of them of quantity 2, was answered 201
C8_Witness ==
    /\ Op("Checkout")
    /\ last.status = 201
    /\ Len(Before) = 2
    /\ \E i \in 1..Len(Before) : Before[i].quantity = 2

\* C9: checkout for an existing user whose cart has no line answers 400 and
\* leaves the Orders, the cart and the orderHistory as they were.
C9_EmptyCartCheckout ==
    (Op("Checkout") /\ userExists /\ Before = <<>>) =>
        /\ last.status = 400
        /\ Stored = last.pre

\* a checkout with a usable address found the cart empty, after an earlier order
C9_Witness ==
    /\ Op("Checkout")
    /\ userExists
    /\ Before = <<>>
    /\ AddressById(addresses, last.req.addressId) = 1
    /\ orders # <<>>

\* C10: checkout with a non-empty cart and a selectedAddressId that is the id of
\* no address of the user answers 400, creates no Order and leaves the cart and
\* the orderHistory as they were.
C10_UnknownAddressCheckout ==
    (/\ Op("Checkout")
     /\ userExists
     /\ Before # <<>>
     /\ \A i \in 1..Len(addresses) :
           ObjectIdToString(addresses[i]._id) # last.req.addressId) =>
        /\ last.status = 400
        /\ Stored = last.pre

\* a checkout of a non-empty cart of catalog products named an unknown address
C10_Witness ==
    /\ Op("Checkout")
    /\ userExists
    /\ Before # <<>>
    /\ \A i \in 1..Len(Before) : Populate(catalog, Before[i].product) # NoProduct
    /\ last.req.addressId = Str(<<"e", "5">>)
    /\ last.status = 400

\* reading a property of a stored document: undefined when the path is absent
Field(doc, name) == IF name \in DOMAIN doc THEN doc[name] ELSE Undefined

\* C11: every line item of the Order persisted by a checkout answered 201 records
\* the variant label of the cart line it was made from (the same string, or null
\* when the line has none), so that two lines of one product that differ in size
\* stay distinguishable in the Order.
C11_OrderItemSize ==
    (Op("Checkout") /\ last.status = 201) =>
        LET order == orders[Len(orders)] IN
        \A i \in 1..Len(Before) :
            OrElse(Field(order.items[i], "size"), Null) = OrElse(Before[i].size, Null)

KnownAction(action) == action = "increment" \/ action = "decrement"

\* C15 (as stated): for an existing user AdjustQuantity answers 404 when no cart
\* line matches (product, variant) and 400 for every direction other than
\* increment and decrement, whether or not a line matches; the cart is unchanged.
C15_AdjustFailures_AsStated ==
    (Op("Adjust") /\ userExists) =>
        /\ Selected(Before, last.req) = {} => (last.status = 404 /\ Stored = last.pre)
        /\ ~KnownAction(last.req.action) => (last.status = 400 /\ Stored = last.pre)

\* C15 (amended): for an existing user AdjustQuantity answers 404 when no cart
\* line matches (product, variant), whatever the direction, and 400 when a line
\* matches and the direction is neither increment nor decrement; in both cases
\* the cart is unchanged.
C15_AdjustFailures ==
    (Op("Adjust") /\ userExists) =>
        /\ Selected(Before, last.req) = {} => (last.status = 404 /\ Stored = last.pre)
        /\ (Selected(Before, last.req) # {} /\ ~KnownAction(last.req.action))
              => (last.status = 400 /\ Stored = last.pre)

\* an unknown direction was sent for a line the non-empty cart does not hold
C15_Witness ==
    /\ Op("Adjust")
    /\ userExists
    /\ ~KnownAction(last.req.action)
    /\ Before # <<>>
    /\ Selected(Before, last.req) = {}
    /\ last.status = 404

\* C16: Add answers 400 when the request carries no product identifier, and 404
\* when it carries one and the user does not exist; in both cases the cart is
\* unchanged and no line is created.
C16_AddFailures ==
    Op("Add") =>
        /\ ~Truthy(last.req.productId) => (last.status = 400 /\ Stored = last.pre)
        /\ (Truthy(last.req.productId) /\ ~userExists)
              => (last.status = 404 /\ Stored = last.pre)

\* an Add without a product identifier was refused for a user with a cart
C16_Witness ==
    /\ Op("Add")
    /\ ~Truthy(last.req.productId)
    /\ userExists
    /\ Before # <<>>
    /\ last.status = 400

Me == CastObjectId(Str(DEMO_USER_ID))

\* C12: once an Order is persisted no later request changes its items, shipping
\* address, total or owner, and none deletes it: after every request the Order
\* collection still holds, unchanged and in place, every Order it held before the
\* request; in particular an update or delete of the address a checkout selected
\* leaves that Order's shipping address as it was.
C12_OrdersFrozen ==
    /\ Len(orders) >= Len(last.pre.orders)
    /\ \A k \in 1..Len(last.pre.orders) : orders[k] = last.pre.orders[k]

\* the address an earlier checkout of the user selected has just been updated and
\* now differs from the shipping address of that Order
C12_Witness ==
    /\ Op("UpdateAddress")
    /\ last.status = 200
    /\ LET idx == AddressById(last.pre.addresses, last.req.addressId) IN
       \E k \in 1..Len(orders) :
          /\ orders[k].user = Me
          /\ orders[k].shippingAddress = ShippingAddress(last.pre.addresses[idx])
          /\ orders[k].shippingAddress # ShippingAddress(addresses[idx])

\* C13: GET /api/user/order/:orderId never returns an Order of another owner, and
\* for the id of an existing Order of another user it answers exactly what it
\* answers for a well-formed id of no Order, and what it would answer were that
\* Order not stored: 404 with the same body.
C13_ForeignOrderHidden ==
    Op("GetOrder") =>
        LET orderId == last.req.data.orderId
            Names(o, id) == IsObjectIdString(id) /\ OrderObjectId(o._id) = CastObjectId(id)
            Foreign(o) == Names(o, orderId) /\ o.user # Me
            Kept(o) == ~Foreign(o)
            Absent(id) ==
                IsObjectIdString(id) /\ \A k \in 1..Len(orders) : ~Names(orders[k], id)
            response == [status |-> last.status, body |-> last.body]
        IN  /\ last.status = 200 => last.body.order.user = Me
            /\ (\E k \in 1..Len(orders) : Foreign(orders[k])) =>
                  /\ last.status = 404
                  /\ last.body = OrderNotFound
                  /\ \A id \in OrderIdStrings :
                        Absent(id) =>
                            GetOrderHandler(orders, catalog, id, DEMO_USER_ID) = response
                  /\ GetOrderHandler(SelectSeq(orders, Kept), catalog, orderId,
                                     DEMO_USER_ID) = response

\* the user, who has an Order of their own, asked for another user's Order
C13_Witness ==
    /\ Op("GetOrder")
    /\ IsObjectIdString(last.req.data.orderId)
    /\ \E k \in 1..Len(orders) :
          /\ OrderObjectId(orders[k]._id) = CastObjectId(last.req.data.orderId)
          /\ orders[k].user = OtherUserId
    /\ \E k \in 1..Len(orders) : orders[k].user = Me
    /\ last.status = 404

\* a request that carries the fields its route requires
WellFormed(req) ==
    /\ req.op = "Add" => Truthy(req.productId)
    /\ req.op = "ToggleWishlist" => (Truthy(req.productId) /\ req.action # "")
    /\ req.op = "UpdateProfile" =>
          (req.data.email = Undefined \/ MatchesEmail(req.data.email))

\* C14: every well-formed request served while no User record exists for the
\* caller is answered 404 and leaves the stored state as it was.
C14_NoUserNotFound ==
    (~userExists /\ ~Op("none") /\ WellFormed(last.req)) =>
        /\ last.status = 404
        /\ Stored = last.pre

\* C17: Toggle with action ADD for an existing user appends one entry for the
\* product when the wishlist holds none and leaves the wishlist as it is when it
\* holds one.
C17_WishlistAdd ==
    (/\ Op("ToggleWishlist")
     /\ last.req.action = "ADD"
     /\ userExists
     /\ IsObjectIdString(last.req.productId)) =>
        LET before == last.pre.wishlist
            held == \E i \in 1..Len(before) : before[i] = CastObjectId(last.req.productId)
        IN  IF held
            THEN wishlist = before
            ELSE /\ Len(wishlist) = Len(before) + 1
                 /\ SubSeq(wishlist, 1, Len(before)) = before


Slot(p) == inflight.slots[p]

Answered(p) == Slot(p).pc = "done"

\* both requests read the User before either wrote it, and nothing else wrote since
Interleaved(p, q) ==
    /\ p # q
    /\ Answered(p) /\ Answered(q)
    /\ Slot(p).status = 200 /\ Slot(q).status = 200
    /\ Slot(p).delta.kind = "setQuantity" /\ Slot(q).delta.kind = "setQuantity"
    /\ Slot(p).delta.index = Slot(q).delta.index
    /\ Slot(p).readAt = Slot(q).readAt
    /\ inflight.writes = Slot(p).readAt + 2

\* C18: when two requests that set the quantity of the same cart line read the
\* User before either of them writes, both are answered 200 and the stored line
\* holds just what the later writer computed from the quantity it read -- the
\* earlier writer's update is not in it.
C18_LastWriteWins ==
    \A p \in Slots, q \in Slots :
        Interleaved(p, q) /\ inflight.lastWriter = q =>
            /\ Slot(q).delta.index <= Len(cart)
            /\ cart[Slot(q).delta.index].quantity = Slot(q).delta.quantity
            /\ cart[Slot(q).delta.index].quantity
                 # Slot(p).delta.quantity + (Slot(q).delta.quantity - Slot(q).delta.read)

\* two increments of the same line, both answered 200, and the line went up by one
C18_Witness ==
    \E p \in Slots, q \in Slots :
        /\ Interleaved(p, q)
        /\ Slot(p).req.op = "Adjust" /\ Slot(p).req.action = "increment"
        /\ Slot(q).req.op = "Adjust" /\ Slot(q).req.action = "increment"
        /\ cart[Slot(p).delta.index].quantity = Slot(p).delta.read + 1

IsCheckout(p) == Slot(p).delta.kind = "checkout"

\* the Order write of p is done and its User write is not
OrderOnly(p) ==
    /\ IsCheckout(p)
    /\ \/ Slot(p).pc = "saveUser"
       \/ Answered(p) /\ Slot(p).failed /\ Slot(p).completed = 1

\* C19: checkout writes the Order first; once the Order is written and the User
\* write has failed or not happened, the Order is stored but is not in the
\* user's orderHistory, the cart still holds the ordered lines if nobody else
\* wrote it meanwhile, and a failed User write is answered 500.
C19_OrphanOrder ==
    \A p \in Slots :
        /\ IsCheckout(p) /\ Slot(p).completed >= 1 =>
               \E i \in 1..Len(orders) : orders[i] = Slot(p).order
        /\ OrderOnly(p) =>
               /\ \E i \in 1..Len(orders) : orders[i] = Slot(p).order
               /\ \A i \in 1..Len(orderHistory) : orderHistory[i] # Slot(p).order._id
               /\ inflight.writes = Slot(p).readAt =>
                      cart = Slot(p).doc.cart /\ cart # <<>>
               /\ Answered(p) => Slot(p).status = 500

\* a checkout answered 500 whose Order is stored while the cart is as it was
C19_Witness ==
    \E p \in Slots :
        /\ OrderOnly(p) /\ Answered(p) /\ Slot(p).status = 500
        /\ Slot(p).attempted = 2
        /\ \E i \in 1..Len(orders) : orders[i] = Slot(p).order
        /\ orderHistory = <<>>
        /\ cart = Slot(p).doc.cart /\ cart # <<>>

\* C20: a request answered 2xx has completed every write it attempted and none
\* of its store calls failed; a request one of whose store calls failed is
\* answered with a failure status and a message.
C20_NoPartialSuccess ==
    \A p \in Slots :
        Answered(p) =>
            /\ Slot(p).status \in 200..299 =>
                   /\ Slot(p).attempted = Slot(p).completed
                   /\ ~Slot(p).failed
                   /\ Slot(p).delta.kind = "checkout" => Slot(p).completed = 2
            /\ Slot(p).failed => Slot(p).status >= 400 /\ Slot(p).message

\* one checkout answered 201 after both writes, another request answered 500
\* after a store call of its own failed
C20_Witness ==
    \E p \in Slots, q \in Slots :
        /\ Answered(p) /\ Slot(p).status = 201 /\ Slot(p).completed = 2
        /\ Answered(q) /\ Slot(q).failed /\ Slot(q).status = 500
        /\ Slot(q).attempted > Slot(q).completed

\* the positions of the addresses an :addressId names
AddressesNamed(addrs, id) ==
    { i \in 1..Len(addrs) : IsObjectIdString(id) /\ addrs[i]._id = CastObjectId(id) }

\* C21: for an existing user, Update and Delete of an addressId that names no
\* address answer 404 and leave the address list as it was; Delete of a
\* matching id removes that address and no other; Update of a matching id
\* leaves every other address and every field the body does not provide as
\* they were, and when it answers 200 the provided fields hold the body's values.
C21_AddressUpdateDelete ==
    (Op("UpdateAddress") \/ Op("DeleteAddress")) /\ userExists =>
        LET pre == last.pre.addresses
            named == AddressesNamed(pre, last.req.addressId)
        IN  IF named = {}
            THEN /\ last.status = 404
                 /\ last.body = MessageBody("Address not found.")
                 /\ addresses = pre
            ELSE \E i \in named :
                   IF Op("DeleteAddress")
                   THEN /\ last.status = 200
                        /\ addresses = RemoveAt(pre, i)
                   ELSE /\ Len(addresses) = Len(pre)
                        /\ \A j \in 1..Len(pre) : j # i => addresses[j] = pre[j]
                        /\ addresses[i]._id = pre[i]._id
                        /\ \A f \in { "fullName", "phone" } :
                              /\ last.req.data[f] = Undefined => addresses[i][f] = pre[i][f]
                              /\ last.status = 200 /\ last.req.data[f] # Undefined =>
                                     addresses[i][f] = last.req.data[f]
                        /\ last.status # 200 => addresses = pre

\* an update or delete of an id that names none of the user's addresses was
\* answered 404
C21_Witness ==
    /\ (Op("UpdateAddress") \/ Op("DeleteAddress"))
    /\ userExists
    /\ last.pre.addresses # <<>>
    /\ AddressesNamed(last.pre.addresses, last.req.addressId) = {}
    /\ last.status = 404

\* C22: a successful Create leaves the existing addresses as they were, stores
\* the new address as the last element of the list, and its response body
\* carries the user's whole address list as stored after the append.
C22_CreateReturnsList ==
    Op("CreateAddress") /\ last.status = 201 =>
        /\ Len(addresses) = Len(last.pre.addresses) + 1
        /\ SubSeq(addresses, 1, Len(last.pre.addresses)) = last.pre.addresses
        /\ addresses[Len(addresses)].fullName = last.req.data.fullName
        /\ "addresses" \in DOMAIN last.body /\ last.body.addresses = addresses

ContainsText(q, text) ==
    \E at \in 0..(Len(text.s) - Len(q.s)) :
        \A k \in 1..Len(q.s) : Fold(q.s[k]) = Fold(text.s[at + k])

\* the categories a comma-separated list names
CategoriesOf(query) ==
    { Split(query.category.s, ",")[i] : i \in 1..Len(Split(query.category.s, ",")) }

\* C24: for every catalog and every query the listing answers 200 with exactly
\* the products whose category is one of those listed (when given), whose
\* rating is at least the minimum (when given) and whose name contains the
\* search text whatever the letter case (when given), in non-decreasing price
\* order for sort=priceLowToHigh and non-increasing for sort=priceHighToLow.
C24_ProductQuery ==
    Op("ListProducts") =>
        LET query == last.req.data
            wanted == { p \in catalog :
                          /\ Truthy(query.category) => p.category \in CategoriesOf(query)
                          /\ Truthy(query.rating) => p.rating >= Number(query.rating.s)
                          /\ Truthy(query.q) => ContainsText(query.q, p.name) }
        IN  /\ last.status = 200
            /\ "products" \in DOMAIN last.body
            /\ LET got == last.body.products IN
               /\ { got[i] : i \in 1..Len(got) } = wanted
               /\ Len(got) = Cardinality(wanted)
               /\ query.sort = Str(<<"priceLowToHigh">>) =>
                      \A i \in 1..(Len(got) - 1) : got[i].price <= got[i + 1].price
               /\ query.sort = Str(<<"priceHighToLow">>) =>
                      \A i \in 1..(Len(got) - 1) : got[i].price >= got[i + 1].price

\* C25: in every state reached by interleaved requests of which one store call
\* may fail, every identifier in the user's orderHistory is the _id of a stored
\* Order whose user is this user, and no identifier occurs in it twice.
C25_OrderHistorySound ==
    /\ \A i \in 1..Len(orderHistory) :
          \E k \in 1..Len(orders) :
             orders[k]._id = orderHistory[i] /\ orders[k].user = Me
    /\ \A i, j \in 1..Len(orderHistory) :
          i # j => orderHistory[i] # orderHistory[j]

\* two checkouts ran interleaved: one is in the orderHistory, the other was
\* refused by the store after its Order had been written
C25_Witness ==
    \E p \in Slots, q \in Slots :
        /\ p # q
        /\ IsCheckout(p) /\ Answered(p) /\ Slot(p).status = 201
        /\ IsCheckout(q) /\ Answered(q) /\ Slot(q).failed /\ Slot(q).completed = 1
        /\ Slot(p).readAt = Slot(q).readAt
        /\ orderHistory = <<Slot(p).order._id>>
        /\ Len(orders) = 2

OrderStored(order) == \E k \in 1..Len(orders) : orders[k] = order

\* C26: two checkouts that read the same cart never both create an Order: of
\* the Orders built from one reading of the cart at most one is stored.
C26_OneOrderPerCart ==
    \A p \in Slots, q \in Slots :
        (/\ p # q
         /\ IsCheckout(p) /\ IsCheckout(q)
         /\ Slot(p).readAt = Slot(q).readAt
         /\ Slot(p).doc.cart = Slot(q).doc.cart) =>
            ~(OrderStored(Slot(p).order) /\ OrderStored(Slot(q).order))

\* the stored Order with the given _id
OrderWithId(id) == orders[CHOOSE k \in 1..Len(orders) : orders[k]._id = id]

\* C27: whenever a checkout empties the stored cart and records its Order in
\* the orderHistory, every line the stored cart held at that moment is a line
\* of that Order with at least the stored quantity: no line and no unit that
\* another request stored after the checkout read the cart is dropped unordered.
C27_CheckoutDropsNothing ==
    [][ (/\ cart # <<>>
         /\ cart' = <<>>
         /\ Len(orderHistory') = Len(orderHistory) + 1) =>
            LET items == OrderWithId(orderHistory'[Len(orderHistory')]).items
            IN  \A i \in 1..Len(cart) :
                   \E j \in 1..Len(items) :
                      /\ items[j].product = cart[i].product
                      /\ items[j].quantity >= cart[i].quantity ]_vars

\* C28: every line of the stored cart references a Product of the catalog, so
\* that populate("cart.product") resolves the product of each line.
C28_CartProductsExist ==
    \A i \in 1..Len(cart) : \E p \in catalog : p._id = cart[i].product

\* the request named an address that POST /api/user/addresses stored
NamesCreatedAddress(req, addrs) ==
    \E i \in AddressesNamed(addrs, req.addressId) :
        \A s \in 1..Len(SeedAddresses) : addrs[i]._id # SeedAddresses[s]._id

\* C29: a checkout of a non-empty cart whose lines all reference catalog
\* products, naming an address that Create accepted and stored, is answered 201
\* and stores the Order.
C29_StoredAddressUsable ==
    (/\ Op("Checkout")
     /\ userExists
     /\ last.pre.cart # <<>>
     /\ \A i \in 1..Len(last.pre.cart) : \E p \in catalog : p._id = last.pre.cart[i].product
     /\ NamesCreatedAddress(last.req, last.pre.addresses)) =>
        /\ last.status = 201
        /\ Len(orders) = Len(last.pre.orders) + 1

CartOps == { "Add", "Adjust", "Remove", "Clear" }
WishlistOps == { "GetWishlist", "ToggleWishlist", "ClearWishlist" }
AddressOps == { "ListAddresses", "CreateAddress", "UpdateAddress", "DeleteAddress" }

\* the Orders of other users, in place
OrdersOfOthers(os) == SelectSeq(os, LAMBDA o : o.user # Me)

\* C30: a cart request leaves wishlist, addresses, orderHistory and the Orders
\* as they were; a wishlist request leaves cart, addresses, orderHistory and the
\* Orders as they were; an address request leaves cart, wishlist, orderHistory
\* and the Orders as they were; a checkout leaves wishlist and addresses as
\* they were; and no request changes the catalog or an Order of another user.
C30_FrameEffects ==
    [][ LET op == last'.req.op IN
        /\ op \in CartOps =>
              /\ wishlist' = wishlist /\ addresses' = addresses
              /\ orderHistory' = orderHistory /\ orders' = orders
        /\ op \in WishlistOps =>
              /\ cart' = cart /\ addresses' = addresses
              /\ orderHistory' = orderHistory /\ orders' = orders
        /\ op \in AddressOps =>
              /\ cart' = cart /\ wishlist' = wishlist
              /\ orderHistory' = orderHistory /\ orders' = orders
        /\ op = "Checkout" => wishlist' = wishlist /\ addresses' = addresses
        /\ catalog' = catalog
        /\ OrdersOfOthers(orders') = OrdersOfOthers(orders) ]_vars

\* the wishlist of a user with a non-empty cart was cleared and the cart, the
\* addresses, the orderHistory and the Orders are as they were
C30_Witness ==
    /\ Op("ClearWishlist")
    /\ last.status = 200
    /\ last.pre.wishlist # <<>>
    /\ wishlist = <<>>
    /\ last.pre.cart # <<>>
    /\ Stored = [last.pre EXCEPT !.wishlist = <<>>]

====
